---------------------------- MODULE Spec2Model ----------------------------
(***************************************************************************)
(* Model of py.py (coarchi-docx): the markdown <-> document transcoder,    *)
(* the section-to-record parser, the CSV writer and the orchestrating      *)
(* main().  Text is a sequence of one-character strings, so that the       *)
(* string operations of the code (strip, startswith, split, slicing, the   *)
(* regular-expression split) are computed character by character.          *)
(***************************************************************************)
EXTENDS Naturals, Sequences, FiniteSets, TLC

VARIABLES
    pc,               \* position of main()
    document,         \* args.document, the input path
    exists,           \* os.path.exists(args.document)
    inputText,        \* content of the input file when it is a text file
    inputDoc,         \* paragraphs of the input file when it is a .docx
    outputDir,        \* whether the directory `output` exists
    docxFile,         \* paragraphs saved to output/docx.docx
    mdFile,           \* text written to output/md.md
    csvFile,          \* rows written to output/csv.csv
    written,          \* the output files written by this run, in order
    content,          \* the text handed to parse_content
    sections,         \* parse_content's sections
    appended,         \* the rows parse_content appended for each section
    data,             \* the records parse_content returned
    docx_to_extract,  \* "None", "temp_docx" or "document"
    exitCode          \* what main() returned ("None" while running)

vars == <<pc, document, exists, inputText, inputDoc, outputDir, docxFile,
          mdFile, csvFile, written, content, sections, appended, data,
          docx_to_extract, exitCode>>

----------------------------------------------------------------------------
(* Bounds of the model *)

\* most lines in an input text file
MaxLines == 3

\* most paragraphs in an input .docx
MaxParas == 4

----------------------------------------------------------------------------
(* Python string primitives *)

\* the characters str.strip() removes and \s matches (those of the alphabet)
Whitespace == {" ", "\t", "\n"}

Drop(s, n) == IF n >= Len(s) THEN <<>> ELSE SubSeq(s, n + 1, Len(s))

startswith(s, p) == Len(s) >= Len(p) /\ SubSeq(s, 1, Len(p)) = p

\* the least and the greatest member of a non-empty set of numbers
Min(S) == CHOOSE p \in S : \A q \in S : p <= q
Max(S) == CHOOSE p \in S : \A q \in S : q <= p

\* str.lstrip, str.rstrip, str.strip: one step for each character removed
RECURSIVE lstrip(_)
lstrip(s) == IF s # <<>> /\ Head(s) \in Whitespace THEN lstrip(Tail(s)) ELSE s

RECURSIVE rstrip(_)
rstrip(s) ==
    IF s # <<>> /\ s[Len(s)] \in Whitespace
    THEN rstrip(SubSeq(s, 1, Len(s) - 1)) ELSE s

strip(s) == rstrip(lstrip(s))

\* the pieces of s from position start on, between the positions cuts, which
\* are dropped
RECURSIVE PiecesFrom(_, _, _)
PiecesFrom(s, cuts, start) ==
    LET ahead == {c \in cuts : c >= start}
    IN  IF ahead = {} THEN <<SubSeq(s, start, Len(s))>>
        ELSE <<SubSeq(s, start, Min(ahead) - 1)>>
                \o PiecesFrom(s, cuts, Min(ahead) + 1)

PiecesAt(s, cuts) == PiecesFrom(s, cuts, 1)

\* s.split(sep) for a one-character separator: always at least one piece
split(s, sep) == PiecesAt(s, {i \in 1..Len(s) : s[i] = sep})

\* sep.join(parts)
RECURSIVE join(_, _)
join(sep, parts) ==
    IF parts = <<>> THEN <<>>
    ELSE IF Len(parts) = 1 THEN parts[1]
    ELSE parts[1] \o <<sep>> \o join(sep, Tail(parts))

\* mutant of AfterFirstColon: line.rsplit(':', 1)[1], the text after the last
AfterLastColon(s) ==
    IF \E i \in 1..Len(s) : s[i] = ":"
    THEN Drop(s, Max({i \in 1..Len(s) : s[i] = ":"}))
    ELSE <<>>

\* line.split(':', 1)[1]: the text after the first colon
AfterFirstColon(s) ==
    IF \E i \in 1..Len(s) : s[i] = ":"
    THEN Drop(s, Min({i \in 1..Len(s) : s[i] = ":"}))
    ELSE <<>>

\* f.readlines() with each line's rstrip('\n'): a final newline ends the
\* last line and starts no further one
readlines(text) ==
    IF text = <<>> THEN <<>>
    ELSE IF text[Len(text)] = "\n"
         THEN split(SubSeq(text, 1, Len(text) - 1), "\n")
         ELSE split(text, "\n")

----------------------------------------------------------------------------
(* Literals of the program *)

External == <<"E", "x", "t", "e", "r", "n", "a", "l">>
Integration == <<"I", "n", "t", "e", "g", "r", "a", "t", "i", "o", "n">>
Topic == <<"T", "o", "p", "i", "c">>
To == <<"T", "o">>
Integrations == <<"I", "n", "t", "e", "g", "r", "a", "t", "i", "o", "n", "s">>
FunctionPrefix == <<"F", "u", "n", "c", "t", "i", "o", "n", ":">>
BusinessPrefix == <<"B", "u", "s", "i", "n", "e", "s", "s", " ",
                    "p", "u", "r", "p", "o", "s", "e", ":">>
HeadingWord == <<"H", "e", "a", "d", "i", "n", "g">>
NormalStyle == <<"N", "o", "r", "m", "a", "l">>
ExtMd == <<".", "m", "d">>
ExtDocx == <<".", "d", "o", "c", "x">>
ExtTxt == <<".", "t", "x", "t">>

headers == <<"Application", "Box Location", "Box Type", "Group Type",
             "Group Title", "Box ID", "Box Title", "Arrow Direction",
             "Arrow Description">>

----------------------------------------------------------------------------
(* Format transcoder: convert_md_to_docx and extract_markdown_from_docx *)

Digits == <<"0", "1", "2", "3", "4", "5", "6", "7", "8", "9">>

IsDigit(c) == \E d \in 1..10 : Digits[d] = c

DigitValue(c) == (CHOOSE d \in 1..10 : Digits[d] = c) - 1

\* "%d" % n
RECURSIVE IntToStr(_)
IntToStr(n) ==
    IF n < 10 THEN <<Digits[n + 1]>>
    ELSE IntToStr(n \div 10) \o <<Digits[(n % 10) + 1]>>

\* doc.add_paragraph(text): a paragraph in the default style
add_paragraph(text) == [style |-> NormalStyle, text |-> text]

\* doc.add_heading(text, level): a paragraph in style "Heading <level>"
add_heading(text, level) ==
    [style |-> HeadingWord \o <<" ">> \o IntToStr(level), text |-> text]

\* mutant of ConvertLine: no branch for "### "
ConvertLine_NoLevel3(line) ==
    IF strip(line) = <<>> THEN add_paragraph(<<>>)
    ELSE IF startswith(line, <<"#", " ">>) THEN add_heading(Drop(line, 2), 1)
    ELSE IF startswith(line, <<"#", "#", " ">>)
         THEN add_heading(Drop(line, 3), 2)
    ELSE add_paragraph(line)

\* mutant of ConvertLine: "## " saved as a level-1 heading
ConvertLine_Level2As1(line) ==
    IF strip(line) = <<>> THEN add_paragraph(<<>>)
    ELSE IF startswith(line, <<"#", " ">>) THEN add_heading(Drop(line, 2), 1)
    ELSE IF startswith(line, <<"#", "#", " ">>)
         THEN add_heading(Drop(line, 3), 1)
    ELSE IF startswith(line, <<"#", "#", "#", " ">>)
         THEN add_heading(Drop(line, 4), 3)
    ELSE add_paragraph(line)

\* the body of the loop of convert_md_to_docx, for one line
ConvertLine(line) ==
    IF strip(line) = <<>> THEN add_paragraph(<<>>)
    ELSE IF startswith(line, <<"#", " ">>) THEN add_heading(Drop(line, 2), 1)
    ELSE IF startswith(line, <<"#", "#", " ">>)
         THEN add_heading(Drop(line, 3), 2)
    ELSE IF startswith(line, <<"#", "#", "#", " ">>)
         THEN add_heading(Drop(line, 4), 3)
    ELSE add_paragraph(line)

\* the paragraphs convert_md_to_docx saves for the text of a markdown file
convert_md_to_docx(text) ==
    LET lines == readlines(text)
    IN  [i \in 1..Len(lines) |-> ConvertLine(lines[i])]

\* name.split()[-1]: the last whitespace-separated token of a non-blank name
LastToken(name) ==
    LET t == rstrip(name)
        blanks == {i \in 1..Len(t) : t[i] \in Whitespace}
    IN  IF blanks = {} THEN t ELSE Drop(t, Max(blanks))

\* whether int(tok) succeeds, for a token of decimal digits
IsInt(tok) == tok # <<>> /\ \A i \in 1..Len(tok) : IsDigit(tok[i])

RECURSIVE ParseInt(_)
ParseInt(tok) ==
    IF tok = <<>> THEN 0
    ELSE 10 * ParseInt(SubSeq(tok, 1, Len(tok) - 1)) + DigitValue(tok[Len(tok)])

\* '#' * level
RECURSIVE Hashes(_)
Hashes(level) == IF level = 0 THEN <<>> ELSE <<"#">> \o Hashes(level - 1)

\* mutant of ParaToMarkdown: no space between the "#" and the text
ParaToMarkdown_NoSpace(para) ==
    IF startswith(para.style, HeadingWord) /\ IsInt(LastToken(para.style))
    THEN Hashes(ParseInt(LastToken(para.style))) \o para.text
    ELSE para.text

\* the body of the loop of extract_markdown_from_docx, for one paragraph
ParaToMarkdown(para) ==
    IF startswith(para.style, HeadingWord) /\ IsInt(LastToken(para.style))
    THEN Hashes(ParseInt(LastToken(para.style))) \o <<" ">> \o para.text
    ELSE para.text

extract_markdown_from_docx(doc) ==
    join("\n", [i \in 1..Len(doc) |-> ParaToMarkdown(doc[i])])

----------------------------------------------------------------------------
(* Content parser: parse_content *)

\* mutant of ReSplit: re.split(r'\n(?=# [^#])', s)
ReSplit_TopLevelOnly(s) ==
    PiecesAt(s, {i \in 1..Len(s) :
                    /\ s[i] = "\n"
                    /\ i + 3 <= Len(s)
                    /\ s[i + 1] = "#" /\ s[i + 2] = " " /\ s[i + 3] # "#"})

\* re.split(r'\n(?=# )', s): cut at every newline that "# " follows
ReSplit(s) ==
    PiecesAt(s, {i \in 1..Len(s) :
                    /\ s[i] = "\n"
                    /\ i + 2 <= Len(s)
                    /\ s[i + 1] = "#" /\ s[i + 2] = " "})

\* sections = re.split(r'\n(?=# )', content.strip())
Sections(text) == ReSplit(strip(text))

\* the record a section starts from
InitialData ==
    [h \in {headers[i] : i \in 1..Len(headers)} |->
        CASE h = "Box Location" -> External
          [] h = "Box Type" -> Integration
          [] h = "Group Type" -> Topic
          [] h = "Arrow Direction" -> To
          [] OTHER -> <<>>]

\* mutant of ParseLine: an Application already set is kept
ParseLine_FirstWins(d, rawLine) ==
    LET line == strip(rawLine)
    IN  IF startswith(line, <<"#", " ">>)
        THEN IF d["Application"] # <<>> THEN d
             ELSE [d EXCEPT !["Application"] = strip(Drop(line, 2)),
                            !["Group Title"] = Integrations]
        ELSE IF startswith(line, <<"#", "#", " ">>)
        THEN [d EXCEPT !["Box ID"] = strip(Drop(line, 3))]
        ELSE IF startswith(line, FunctionPrefix)
        THEN [d EXCEPT !["Box Title"] = strip(AfterFirstColon(line))]
        ELSE IF startswith(line, BusinessPrefix)
        THEN [d EXCEPT !["Arrow Description"] = strip(AfterFirstColon(line))]
        ELSE d

\* the body of the loop over the lines of a section
ParseLine(d, rawLine) ==
    LET line == strip(rawLine)
    IN  IF startswith(line, <<"#", " ">>)
        THEN [d EXCEPT !["Application"] = strip(Drop(line, 2)),
                       !["Group Title"] = Integrations]
        ELSE IF startswith(line, <<"#", "#", " ">>)
        THEN [d EXCEPT !["Box ID"] = strip(Drop(line, 3))]
        ELSE IF startswith(line, FunctionPrefix)
        THEN [d EXCEPT !["Box Title"] = strip(AfterFirstColon(line))]
        ELSE IF startswith(line, BusinessPrefix)
        THEN [d EXCEPT !["Arrow Description"] = strip(AfterFirstColon(line))]
        ELSE d

RECURSIVE ParseLines(_, _)
ParseLines(d, lines) ==
    IF lines = <<>> THEN d
    ELSE ParseLines(ParseLine(d, Head(lines)), Tail(lines))

\* the record built from one section
ParseSection(section) == ParseLines(InitialData, split(strip(section), "\n"))

\* mutant of Retained: if data['Application'] or data['Box ID']
Retained_Either(d) == d["Application"] # <<>> \/ d["Box ID"] # <<>>

\* if data['Application'] and data['Box ID']
Retained(d) == d["Application"] # <<>> /\ d["Box ID"] # <<>>

\* the rows one iteration of the loop over the sections appends: none for a
\* blank section or a record that is not retained, else the record
RowsOf(section) ==
    IF strip(section) = <<>> THEN <<>>
    ELSE LET d == ParseSection(section)
         IN  IF Retained(d) THEN <<d>> ELSE <<>>

\* what each section appended, section by section
SectionRows(text) ==
    LET secs == Sections(text)
    IN  [k \in 1..Len(secs) |-> RowsOf(secs[k])]

RECURSIVE Flatten(_)
Flatten(ss) == IF ss = <<>> THEN <<>> ELSE Head(ss) \o Flatten(Tail(ss))

\* rows, as returned
parse_content(text) == Flatten(SectionRows(text))

----------------------------------------------------------------------------
(* CSV writer: write_csv *)

\* csv_row, then DictWriter.writerow: the values in the order of fieldnames
CsvRow(row) == [j \in 1..Len(headers) |-> row[headers[j]]]

\* mutant of write_csv: no header row when there is no record
write_csv_NoHeaderWhenEmpty(rows) ==
    IF rows = <<>> THEN <<>>
    ELSE <<headers>> \o [i \in 1..Len(rows) |-> CsvRow(rows[i])]

\* the rows of the file write_csv writes: writeheader(), then one per record
write_csv(rows) == <<headers>> \o [i \in 1..Len(rows) |-> CsvRow(rows[i])]

----------------------------------------------------------------------------
(* Orchestrator: main *)

UpperCase == <<"A", "B", "C", "D", "E", "F", "G", "H", "I", "J", "K", "L", "M",
               "N", "O", "P", "Q", "R", "S", "T", "U", "V", "W", "X", "Y", "Z">>
LowerCase == <<"a", "b", "c", "d", "e", "f", "g", "h", "i", "j", "k", "l", "m",
               "n", "o", "p", "q", "r", "s", "t", "u", "v", "w", "x", "y", "z">>

LowerChar(c) ==
    IF \E k \in 1..26 : UpperCase[k] = c
    THEN LowerCase[CHOOSE k \in 1..26 : UpperCase[k] = c]
    ELSE c

\* mutant of lower: the extension compared as written
lower_AsWritten(s) == s

\* str.lower()
lower(s) == [i \in 1..Len(s) |-> LowerChar(s[i])]

\* s.rfind(c), counted from 1; 0 when c does not occur
rfind(s, c) == Max({0} \cup {i \in 1..Len(s) : s[i] = c})

\* os.path.splitext(path)[1]: from the last dot of the last component, unless
\* only dots precede it there
splitext(path) ==
    LET sepIndex == rfind(path, "/")
        dotIndex == rfind(path, ".")
    IN  IF dotIndex > sepIndex
           /\ \E k \in (sepIndex + 1)..(dotIndex - 1) : path[k] # "."
        THEN SubSeq(path, dotIndex, Len(path))
        ELSE <<>>

\* file_ext = os.path.splitext(args.document)[1].lower()
file_ext == lower(splitext(document))

\* the lines an input text file is made of
Lines ==
    { <<"#", " ", "a">>,
      <<"#", "#", " ", "b">>,
      <<" ", "#", " ", "b">>,
      <<"#", " ", "#", "a">>,
      <<"#", " ">>,
      <<"#", "\t", "a">>,
      <<"#", "#", "#", " ", "a", " ">>,
      <<"#", "#", "#", "#", " ", "a">>,
      <<"F", "u", "n", "c", "t", "i", "o", "n", ":", " ", "a", ":", "b">>,
      <<" ", "F", "u", "n", "c", "t", "i", "o", "n", ":", "b">>,
      <<"B", "u", "s", "i", "n", "e", "s", "s", " ",
        "p", "u", "r", "p", "o", "s", "e", ":", " ", "a">>,
      <<" ">>,
      <<>> }

SeqsUpTo(S, n) == UNION {[1..k -> S] : k \in 0..n}

\* the input texts: up to MaxLines lines joined by newlines
Contents == {join("\n", ls) : ls \in SeqsUpTo(Lines, MaxLines)}

\* the paragraphs an input .docx is made of
Paragraphs ==
    { [style |-> HeadingWord \o <<" ", "1">>, text |-> <<"a">>],
      [style |-> HeadingWord \o <<" ", "2">>, text |-> <<"b", " ">>],
      [style |-> HeadingWord, text |-> <<"a">>],
      [style |-> NormalStyle, text |-> <<"#", " ", "#", "a">>],
      [style |-> NormalStyle,
       text |-> FunctionPrefix \o <<" ", "a", ":", "b">>],
      [style |-> NormalStyle, text |-> <<" ">> \o BusinessPrefix \o <<"a">>],
      [style |-> NormalStyle, text |-> <<>>] }

Docs == SeqsUpTo(Paragraphs, MaxParas)

\* the input paths
Paths ==
    { <<"a", ".", "m", "d">>,
      <<"b", "/", "a", ".", "T", "X", "T">>,
      <<"a", ".", "d", "o", "c", "x">>,
      <<"a", ".", "c", "s", "v">>,
      <<".", "t", "x", "t">>,
      <<"b", ".", "c", "/", "a">> }

Init ==
    /\ pc = "start"
    /\ document \in Paths
    /\ exists \in BOOLEAN
    /\ inputText \in
         IF exists /\ file_ext \in {ExtMd, ExtTxt} THEN Contents ELSE {<<>>}
    /\ inputDoc \in IF exists /\ file_ext = ExtDocx THEN Docs ELSE {<<>>}
    /\ outputDir = FALSE
    /\ docxFile = <<>>
    /\ mdFile = <<>>
    /\ csvFile = <<>>
    /\ written = <<>>
    /\ content = <<>>
    /\ sections = <<>>
    /\ appended = <<>>
    /\ data = <<>>
    /\ docx_to_extract = "None"
    /\ exitCode = "None"

\* if not os.path.exists(args.document): return 1
InputMissing ==
    /\ pc = "start"
    /\ ~exists
    /\ pc' = "done"
    /\ exitCode' = 1
    /\ UNCHANGED <<document, exists, inputText, inputDoc, outputDir,
                   docxFile, mdFile, csvFile, written, content, sections,
                   appended, data, docx_to_extract>>

\* os.makedirs(output_dir, exist_ok=True)
MakeOutputDir ==
    /\ pc = "start"
    /\ exists
    /\ outputDir' = TRUE
    /\ pc' = "dispatch"
    /\ UNCHANGED <<document, exists, inputText, inputDoc, docxFile, mdFile,
                   csvFile, written, content, sections, appended, data,
                   docx_to_extract, exitCode>>

\* .md: convert_md_to_docx(args.document, temp_docx)
ConvertMd ==
    /\ pc = "dispatch"
    /\ file_ext = ExtMd
    /\ docxFile' = convert_md_to_docx(inputText)
    /\ written' = Append(written, "docx.docx")
    /\ pc' = "parse_temp"
    /\ UNCHANGED <<document, exists, inputText, inputDoc, outputDir, mdFile,
                   csvFile, content, sections, appended, data,
                   docx_to_extract, exitCode>>

\* .md: data = parse_docx_file(temp_docx); docx_to_extract = temp_docx
ParseTempDocx ==
    /\ pc = "parse_temp"
    /\ content' = extract_markdown_from_docx(docxFile)
    /\ sections' = Sections(content')
    /\ appended' = SectionRows(content')
    /\ data' = parse_content(content')
    /\ docx_to_extract' = "temp_docx"
    /\ pc' = "extract"
    /\ UNCHANGED <<document, exists, inputText, inputDoc, outputDir,
                   docxFile, mdFile, csvFile, written, exitCode>>

\* .docx: data = parse_docx_file(args.document); docx_to_extract = args.document
ParseInputDocx ==
    /\ pc = "dispatch"
    /\ file_ext # ExtMd
    /\ file_ext = ExtDocx
    /\ content' = extract_markdown_from_docx(inputDoc)
    /\ sections' = Sections(content')
    /\ appended' = SectionRows(content')
    /\ data' = parse_content(content')
    /\ docx_to_extract' = "document"
    /\ pc' = "extract"
    /\ UNCHANGED <<document, exists, inputText, inputDoc, outputDir,
                   docxFile, mdFile, csvFile, written, exitCode>>

\* .txt: data = parse_txt_file(args.document)
ParseTxt ==
    /\ pc = "dispatch"
    /\ file_ext \notin {ExtMd, ExtDocx}
    /\ file_ext = ExtTxt
    /\ content' = inputText
    /\ sections' = Sections(content')
    /\ appended' = SectionRows(content')
    /\ data' = parse_content(content')
    /\ pc' = "extract"
    /\ UNCHANGED <<document, exists, inputText, inputDoc, outputDir,
                   docxFile, mdFile, csvFile, written, docx_to_extract,
                   exitCode>>

\* else: unsupported file type, return 1
Unsupported ==
    /\ pc = "dispatch"
    /\ file_ext \notin {ExtMd, ExtDocx, ExtTxt}
    /\ pc' = "done"
    /\ exitCode' = 1
    /\ UNCHANGED <<document, exists, inputText, inputDoc, outputDir,
                   docxFile, mdFile, csvFile, written, content, sections,
                   appended, data, docx_to_extract>>

\* mutant of ExtractMarkdown: md.md written whatever docx_to_extract is
ExtractMarkdown_Always ==
    /\ pc = "extract"
    /\ mdFile' = extract_markdown_from_docx(
                    IF docx_to_extract = "temp_docx" THEN docxFile
                    ELSE inputDoc)
    /\ written' = Append(written, "md.md")
    /\ pc' = "write"
    /\ UNCHANGED <<document, exists, inputText, inputDoc, outputDir,
                   docxFile, csvFile, content, sections, appended, data,
                   docx_to_extract, exitCode>>

\* if docx_to_extract: write extract_markdown_from_docx(...) to output/md.md
ExtractMarkdown ==
    /\ pc = "extract"
    /\ docx_to_extract # "None"
    /\ mdFile' = extract_markdown_from_docx(
                    IF docx_to_extract = "temp_docx" THEN docxFile
                    ELSE inputDoc)
    /\ written' = Append(written, "md.md")
    /\ pc' = "write"
    /\ UNCHANGED <<document, exists, inputText, inputDoc, outputDir,
                   docxFile, csvFile, content, sections, appended, data,
                   docx_to_extract, exitCode>>

\* docx_to_extract is None: nothing to extract
SkipExtract ==
    /\ pc = "extract"
    /\ docx_to_extract = "None"
    /\ pc' = "write"
    /\ UNCHANGED <<document, exists, inputText, inputDoc, outputDir,
                   docxFile, mdFile, csvFile, written, content, sections,
                   appended, data, docx_to_extract, exitCode>>

\* write_csv(data, output_path); return 0
WriteCsv ==
    /\ pc = "write"
    /\ csvFile' = write_csv(data)
    /\ written' = Append(written, "csv.csv")
    /\ pc' = "done"
    /\ exitCode' = 0
    /\ UNCHANGED <<document, exists, inputText, inputDoc, outputDir,
                   docxFile, mdFile, content, sections, appended, data,
                   docx_to_extract>>

Next ==
    \/ InputMissing
    \/ MakeOutputDir
    \/ ConvertMd
    \/ ParseTempDocx
    \/ ParseInputDocx
    \/ ParseTxt
    \/ Unsupported
    \/ ExtractMarkdown
    \/ SkipExtract
    \/ WriteCsv

Spec == Init /\ [][Next]_vars

----------------------------------------------------------------------------
(* Vocabulary of the properties *)

HashSp == <<"#", " ">>
HashHashSp == <<"#", "#", " ">>

\* parse_content has returned
Parsed == pc \in {"extract", "write"} \/ (pc = "done" /\ exitCode = 0)

\* the lines of a section as they stand, and trimmed of surrounding whitespace
RawLines(section) == split(section, "\n")
TrimmedLines(section) ==
    LET ls == RawLines(section)
    IN  [i \in 1..Len(ls) |-> strip(ls[i])]

\* whether some line of ls starts with prefix p, and the last one that does
Has(ls, p) == \E i \in 1..Len(ls) : startswith(ls[i], p)
Last(ls, p) ==
    CHOOSE i \in 1..Len(ls) :
        /\ startswith(ls[i], p)
        /\ \A j \in (i + 1)..Len(ls) : ~startswith(ls[j], p)

\* the trimmed remainder of the last line of ls that starts with p ("" if none)
LastRemainder(ls, p) ==
    IF Has(ls, p) THEN strip(Drop(ls[Last(ls, p)], Len(p))) ELSE <<>>

\* one record, with the Application and Box ID of the last "# " and "## " lines
OneRecordFrom(rows, ls) ==
    /\ Len(rows) = 1
    /\ rows[1]["Application"] = LastRemainder(ls, HashSp)
    /\ rows[1]["Box ID"] = LastRemainder(ls, HashHashSp)

\* C1 as stated, a "# " line being a line of the section that starts with "# ":
\* every section with a "# " line and a "## " line emits exactly one Record,
\* with the trimmed remainders of the last such lines
C1_AsStated ==
    Parsed =>
        \A k \in 1..Len(sections) :
            LET ls == RawLines(sections[k])
            IN  (Has(ls, HashSp) /\ Has(ls, HashHashSp))
                    => OneRecordFrom(appended[k], ls)

\* C1 (amended): every section with a line whose trimmed text starts with "# "
\* and a line whose trimmed text starts with "## " emits exactly one Record,
\* whose Application and Box ID are the trimmed remainders of the last such
\* "# " line and the last such "## " line
C1_OneRecordPerSection ==
    Parsed =>
        \A k \in 1..Len(sections) :
            LET ls == TrimmedLines(sections[k])
            IN  (Has(ls, HashSp) /\ Has(ls, HashHashSp))
                    => OneRecordFrom(appended[k], ls)

\* a section with two trimmed "# " lines and a "## " line has emitted its Record
C1_Witness ==
    /\ Parsed
    /\ \E k \in 1..Len(sections) :
          LET ls == TrimmedLines(sections[k])
          IN  /\ Cardinality({i \in 1..Len(ls) : startswith(ls[i], HashSp)}) = 2
              /\ Has(ls, HashHashSp)
              /\ Len(appended[k]) = 1

\* every returned Record has an Application and a Box ID
AllRetained ==
    \A i \in 1..Len(data) :
        data[i]["Application"] # <<>> /\ data[i]["Box ID"] # <<>>

\* C2 as stated, over the lines as they stand: a section without a line that
\* starts with "# " or without one that starts with "## " emits no Record
C2_AsStated ==
    Parsed =>
        /\ \A k \in 1..Len(sections) :
              LET ls == RawLines(sections[k])
              IN  ~(Has(ls, HashSp) /\ Has(ls, HashHashSp))
                      => appended[k] = <<>>
        /\ AllRetained

\* C2 (amended): a section without a line whose trimmed text starts with "# ",
\* or without one whose trimmed text starts with "## ", emits no Record, and
\* every returned Record has a non-empty Application and a non-empty Box ID
C2_NoRecordWithoutBoth ==
    Parsed =>
        /\ \A k \in 1..Len(sections) :
              LET ls == TrimmedLines(sections[k])
              IN  ~(Has(ls, HashSp) /\ Has(ls, HashHashSp))
                      => appended[k] = <<>>
        /\ AllRetained

\* a section with a Function: line only emitted nothing, beside one that did
C2_Witness ==
    /\ Parsed
    /\ data # <<>>
    /\ \E k \in 1..Len(sections) :
          LET ls == TrimmedLines(sections[k])
          IN  /\ Has(ls, FunctionPrefix)
              /\ ~Has(ls, HashSp)
              /\ ~Has(ls, HashHashSp)
              /\ appended[k] = <<>>

\* the fields of a Record that no line sets
ConstantFields(r) ==
    /\ r["Box Location"] = <<"E", "x", "t", "e", "r", "n", "a", "l">>
    /\ r["Box Type"] = <<"I", "n", "t", "e", "g", "r", "a", "t", "i", "o", "n">>
    /\ r["Group Type"] = <<"T", "o", "p", "i", "c">>
    /\ r["Arrow Direction"] = <<"T", "o">>
    /\ r["Group Title"] =
          <<"I", "n", "t", "e", "g", "r", "a", "t", "i", "o", "n", "s">>

\* Box Title and Arrow Description from the last Function: and Business
\* purpose: lines; the first colon of such a line is the one of the prefix
TitleAndDescriptionFrom(r, ls) ==
    /\ r["Box Title"] = LastRemainder(ls, FunctionPrefix)
    /\ r["Arrow Description"] = LastRemainder(ls, BusinessPrefix)

\* the prefixes of the four rules
RulePrefixes == {HashSp, HashHashSp, FunctionPrefix, BusinessPrefix}

\* C3 as stated, over the lines as they stand
C3_AsStated ==
    Parsed =>
        \A k \in 1..Len(sections) :
            appended[k] # <<>> =>
                /\ ConstantFields(appended[k][1])
                /\ TitleAndDescriptionFrom(appended[k][1],
                                           RawLines(sections[k]))

\* C3 (amended): every emitted Record has the five constant fields, its Box
\* Title is the trimmed text after the first colon of the last line of its
\* section whose trimmed text starts with "Function:" ("" if none), its Arrow
\* Description likewise for "Business purpose:", and no trimmed line matches
\* more than one rule
C3_RecordFields ==
    Parsed =>
        \A k \in 1..Len(sections) :
            LET ls == TrimmedLines(sections[k])
            IN  /\ appended[k] # <<>> =>
                      /\ ConstantFields(appended[k][1])
                      /\ TitleAndDescriptionFrom(appended[k][1], ls)
                /\ \A i \in 1..Len(ls) :
                      Cardinality({p \in RulePrefixes :
                                      startswith(ls[i], p)}) <= 1

\* a Record with a Box Title that holds a colon and an Arrow Description
C3_Witness ==
    /\ Parsed
    /\ \E i \in 1..Len(data) :
          /\ data[i]["Box Title"] = <<"a", ":", "b">>
          /\ data[i]["Arrow Description"] = <<"a">>

\* whether two texts are equal up to the case of their letters
EqualCI(a, b) ==
    /\ Len(a) = Len(b)
    /\ \A i \in 1..Len(a) :
          \/ a[i] = b[i]
          \/ \E k \in 1..26 : {a[i], b[i]} = {UpperCase[k], LowerCase[k]}

\* the extension of the input path is e, compared case-insensitively
ExtIs(e) == EqualCI(splitext(document), e)

SupportedExt ==
    ExtIs(<<".", "m", "d">>) \/ ExtIs(<<".", "d", "o", "c", "x">>)
        \/ ExtIs(<<".", "t", "x", "t">>)

WrittenFiles == {written[i] : i \in 1..Len(written)}

C5_OutputFiles ==
    (pc = "done" /\ exitCode = 0) =>
        /\ outputDir
        /\ "csv.csv" \in WrittenFiles
        /\ csvFile # <<>>
        /\ "docx.docx" \in WrittenFiles <=> ExtIs(<<".", "m", "d">>)
        /\ "md.md" \in WrittenFiles <=>
              (ExtIs(<<".", "m", "d">>) \/ ExtIs(<<".", "d", "o", "c", "x">>))
        /\ written = SelectSeq(<<"docx.docx", "md.md", "csv.csv">>,
                               LAMBDA f : f \in WrittenFiles)

\* a run on a .md input has written the three files in order
C5_Witness ==
    /\ pc = "done"
    /\ exitCode = 0
    /\ written = <<"docx.docx", "md.md", "csv.csv">>

\* the lines of a text with the blank ones emptied
BlankLinesEmptied(text) ==
    LET ls == readlines(text)
    IN  [i \in 1..Len(ls) |-> IF strip(ls[i]) = <<>> THEN <<>> ELSE ls[i]]

\* C6: the markdown extracted from the document a markdown text was converted
\* to has the same lines in the same order, each non-blank line unchanged and
\* each blank or whitespace-only line empty
C6_RoundTrip ==
    docx_to_extract = "temp_docx" =>
        /\ content = join("\n", BlankLinesEmptied(inputText))
        /\ "md.md" \in WrittenFiles =>
              mdFile = join("\n", BlankLinesEmptied(inputText))

\* a text with a level-3 heading and a whitespace-only line made the trip
C6_Witness ==
    /\ docx_to_extract = "temp_docx"
    /\ "md.md" \in WrittenFiles
    /\ mdFile # inputText
    /\ \E i \in 1..Len(docxFile) :
          docxFile[i].style = HeadingWord \o <<" ", "3">>
    /\ \E i \in 1..Len(readlines(inputText)) : readlines(inputText)[i] = <<" ">>

\* the columns of the CSV file, in order
ExpectedColumns ==
    <<"Application", "Box Location", "Box Type", "Group Type", "Group Title",
      "Box ID", "Box Title", "Arrow Direction", "Arrow Description">>

\* C7: the written file is one header row of the 9 columns followed by one
\* 9-field row per Record, in the order of the records, each field holding the
\* Record's value for its column
C7_CsvRows ==
    "csv.csv" \in WrittenFiles =>
        /\ Len(csvFile) = Len(data) + 1
        /\ csvFile[1] = ExpectedColumns
        /\ \A i \in 1..Len(data) :
              /\ Len(csvFile[i + 1]) = 9
              /\ \A j \in 1..9 :
                    csvFile[i + 1][j] = data[i][ExpectedColumns[j]]

\* two different Records have been written, and their rows differ
C7_Witness ==
    /\ "csv.csv" \in WrittenFiles
    /\ Len(data) = 2
    /\ data[1] # data[2]
    /\ csvFile[2] # csvFile[3]

\* the positions, in the joined text, of the newlines that separate secs
RECURSIVE CutsFrom(_, _)
CutsFrom(secs, offset) ==
    IF Len(secs) <= 1 THEN {}
    ELSE {offset + Len(secs[1]) + 1}
            \cup CutsFrom(Tail(secs), offset + Len(secs[1]) + 1)

CutPositions(secs) == CutsFrom(secs, 0)

\* position i of s is a newline that "# " follows
BeforeHashSp(s, i) ==
    s[i] = "\n" /\ i + 2 <= Len(s) /\ s[i + 1] = "#" /\ s[i + 2] = " "

\* position i of s is a newline that "# " and then a non-"#" character follow
BeforeHashSpNonHash(s, i) ==
    BeforeHashSp(s, i) /\ i + 3 <= Len(s) /\ s[i + 3] # "#"

\* C8 as stated: the cuts are the newlines before a line that starts with "# "
\* followed by a non-"#" character, and every later section starts that way
C8_AsStated ==
    Parsed =>
        LET s == strip(content)
        IN  /\ join("\n", sections) = s
            /\ CutPositions(sections)
                  = {i \in 1..Len(s) : BeforeHashSpNonHash(s, i)}
            /\ \A k \in 2..Len(sections) :
                  /\ startswith(sections[k], HashSp)
                  /\ Len(sections[k]) >= 3
                  /\ sections[k][3] # "#"

\* C8 (amended): the trimmed input is split exactly at the newlines that "# "
\* immediately follows, whatever comes after it, and every section other than
\* the first starts with "# "
C8_Sectioning ==
    Parsed =>
        LET s == strip(content)
        IN  /\ join("\n", sections) = s
            /\ CutPositions(sections) = {i \in 1..Len(s) : BeforeHashSp(s, i)}
            /\ \A k \in 2..Len(sections) : startswith(sections[k], HashSp)

\* a line that starts with "# #" has started a section
C8_Witness ==
    /\ Parsed
    /\ \E k \in 2..Len(sections) : startswith(sections[k], <<"#", " ", "#">>)

\* the number of "#" a line starts with
RECURSIVE LeadingHashes(_)
LeadingHashes(line) ==
    IF line # <<>> /\ Head(line) = "#" THEN 1 + LeadingHashes(Tail(line)) ELSE 0

\* the line starts with one to three "#" and then a character of ws
HeadingLine(line, ws) ==
    /\ LeadingHashes(line) \in 1..3
    /\ Len(line) > LeadingHashes(line)
    /\ line[LeadingHashes(line) + 1] \in ws

\* the paragraphs are the lines, one each: a blank line an empty paragraph, a
\* heading line a heading of the level of its "#", any other line itself
ParagraphPerLine(doc, text, ws) ==
    LET ls == readlines(text)
    IN  /\ Len(doc) = Len(ls)
        /\ \A i \in 1..Len(ls) :
              IF strip(ls[i]) = <<>>
              THEN doc[i] = [style |-> <<"N", "o", "r", "m", "a", "l">>,
                             text |-> <<>>]
              ELSE IF HeadingLine(ls[i], ws)
              THEN doc[i].style
                      = <<"H", "e", "a", "d", "i", "n", "g", " ",
                          Digits[LeadingHashes(ls[i]) + 1]>>
              ELSE doc[i] = [style |-> <<"N", "o", "r", "m", "a", "l">>,
                             text |-> ls[i]]

\* C9 as stated: a heading line is one to three "#" and a whitespace character
C9_AsStated ==
    "docx.docx" \in WrittenFiles =>
        ParagraphPerLine(docxFile, inputText, {" ", "\t", "\n"})

\* C9 (amended): each line becomes one paragraph, in order: an empty or
\* whitespace-only line an empty paragraph; a line of one to three "#" followed
\* by a space a heading of that level; any other line, among them one of "#"
\* followed by a tab and one of four "#", a plain paragraph of the same text
C9_ParagraphPerLine ==
    "docx.docx" \in WrittenFiles =>
        ParagraphPerLine(docxFile, inputText, {" "})

\* a "#" + tab line was kept as plain text beside a level-3 heading
C9_Witness ==
    /\ "docx.docx" \in WrittenFiles
    /\ \E i \in 1..Len(docxFile) :
          docxFile[i] = [style |-> NormalStyle, text |-> <<"#", "\t", "a">>]
    /\ \E i \in 1..Len(docxFile) :
          docxFile[i] = [style |-> HeadingWord \o <<" ", "3">>,
                         text |-> <<"a", " ">>]

\* C10: the records of the .md path (convert, extract, parse) are those
\* parse_content returns for the same text, which the .txt path produces
C10_PathEquivalence ==
    docx_to_extract = "temp_docx" => data = parse_content(inputText)

\* the .md path returned a Record from a text the transcoding altered
C10_Witness ==
    /\ docx_to_extract = "temp_docx"
    /\ data # <<>>
    /\ content # inputText

=============================================================================
